---- MODULE Spec2Model ----
(***************************************************************************)
(* device.h of esp_deepsleep_temp_wifi_off: a configuration header of six  *)
(* object-like macros and one #include.  The header has no run-time state; *)
(* its only semantics is what the C preprocessor makes of its text.  The   *)
(* model is that translation: the text of the header, character by         *)
(* character (translation phase 3, tokenisation), then the execution of    *)
(* each line's directive (phase 4), which builds the macro table the       *)
(* consuming sketch sees.                                                  *)
(***************************************************************************)
EXTENDS Naturals, Sequences, FiniteSets

(***************************************************************************)
(* The text of src/device.h, one definition per source line, one element   *)
(* per character.                                                          *)
(***************************************************************************)

\* device.h:1   #include "DHT.h"
Line1 ==
  <<"#", "i", "n", "c", "l", "u", "d", "e", " ", "\"", "D", "H", "T", ".",
    "h", "\"">>

\* device.h:2   (blank)
Line2 == <<>>

\* device.h:3   // Your device details
Line3 ==
  <<"/", "/", " ", "Y", "o", "u", "r", " ", "d", "e", "v", "i", "c", "e",
    " ", "d", "e", "t", "a", "i", "l", "s">>

\* device.h:4   #define MQTT_TOPIC_PREFIX "home/"
Line4 ==
  <<"#", "d", "e", "f", "i", "n", "e", " ", "M", "Q", "T", "T", "_", "T",
    "O", "P", "I", "C", "_", "P", "R", "E", "F", "I", "X", " ", "\"", "h",
    "o", "m", "e", "/", "\"">>

\* Line5 with the sleep interval mistyped as 0.
Line5_zero ==
  <<"#", "d", "e", "f", "i", "n", "e", " ", "D", "E", "V", "I", "C", "E",
    "_", "S", "L", "E", "E", "P", " ", " ", " ", " ", " ", " ", "0">>

\* device.h:5   #define DEVICE_SLEEP      10
Line5 ==
  <<"#", "d", "e", "f", "i", "n", "e", " ", "D", "E", "V", "I", "C", "E",
    "_", "S", "L", "E", "E", "P", " ", " ", " ", " ", " ", " ", "1", "0">>

\* Line6 with the retry count mistyped as 60.
Line6_typo ==
  <<"#", "d", "e", "f", "i", "n", "e", " ", "R", "E", "T", "R", "Y", "_",
    "C", "O", "U", "N", "T", " ", " ", " ", " ", " ", " ", " ", "6", "0">>

\* device.h:6   #define RETRY_COUNT       600
Line6 ==
  <<"#", "d", "e", "f", "i", "n", "e", " ", "R", "E", "T", "R", "Y", "_",
    "C", "O", "U", "N", "T", " ", " ", " ", " ", " ", " ", " ", "6", "0",
    "0">>

\* device.h:7   (blank)
Line7 == <<>>

\* device.h:8   // Sensor definition & init
Line8 ==
  <<"/", "/", " ", "S", "e", "n", "s", "o", "r", " ", "d", "e", "f", "i",
    "n", "i", "t", "i", "o", "n", " ", "&", " ", "i", "n", "i", "t">>

\* device.h:9   #define DHTPIN 2
Line9 ==
  <<"#", "d", "e", "f", "i", "n", "e", " ", "D", "H", "T", "P", "I", "N",
    " ", "2">>

\* Line10 selecting the other common sensor model, DHT22.
Line10_DHT22 ==
  <<"#", "d", "e", "f", "i", "n", "e", " ", "D", "H", "T", "T", "Y", "P",
    "E", " ", "D", "H", "T", "2", "2">>

\* device.h:10   #define DHTTYPE DHT11
Line10 ==
  <<"#", "d", "e", "f", "i", "n", "e", " ", "D", "H", "T", "T", "Y", "P",
    "E", " ", "D", "H", "T", "1", "1">>

\* Line11 holding a seventh definition instead of being blank.
Line11_extra ==
  <<"#", "d", "e", "f", "i", "n", "e", " ", "D", "E", "B", "U", "G", " ",
    "1">>

\* device.h:11   (blank)
Line11 == <<>>

\* Line12 with the broadcast octet 255.
Line12_broadcast ==
  <<"#", "d", "e", "f", "i", "n", "e", " ", "I", "P", "N", "R", " ", "2",
    "5", "5">>

\* device.h:12   #define IPNR 251
Line12 ==
  <<"#", "d", "e", "f", "i", "n", "e", " ", "I", "P", "N", "R", " ", "2",
    "5", "1">>

\* device.h, the whole file: its twelve lines in order (the last one has
\* no trailing newline).
device_h ==
  <<Line1, Line2, Line3, Line4, Line5, Line6,
    Line7, Line8, Line9, Line10, Line11, Line12>>

NumLines == Len(device_h)

VARIABLES
  line,        \* number of the source line being read (NumLines + 1: end of file)
  col,         \* column of the next character to read on that line
  mode,        \* "code", or "string" inside a string literal
  cur,         \* spelling of the preprocessing token being read
  toks,        \* preprocessing tokens completed on this line
  macros,      \* macro table: name |-> replacement list
  includes,    \* header names of the #include directives executed, in order
  directives,  \* names of the directives executed, in order
  text         \* tokens of the non-directive lines (the program text emitted)

vars == <<line, col, mode, cur, toks, macros, includes, directives, text>>

----------------------------------------------------------------------------
(* Spellings *)

\* The string a sequence of characters spells.
RECURSIVE Str(_)
Str(s) == IF s = <<>> THEN "" ELSE s[1] \o Str(Tail(s))

\* The spellings of a list of tokens.
Spelling(ts) == [i \in DOMAIN ts |-> Str(ts[i])]

Range(s) == {s[i] : i \in DOMAIN s}

----------------------------------------------------------------------------
(* Translation phase 3: the line is decomposed into preprocessing tokens *)

AtEnd == line > NumLines
CurLine == device_h[line]
InLine == ~AtEnd /\ col <= Len(CurLine)
Ch == CurLine[col]

\* The token being read, if any, is complete.
Flush(ts, c) == IF c = <<>> THEN ts ELSE Append(ts, c)

\* "//" starts a comment that runs to the end of the line.
CommentStart == Ch = "/" /\ col < Len(CurLine) /\ CurLine[col + 1] = "/"

Init ==
  /\ line = 1
  /\ col = 1
  /\ mode = "code"
  /\ cur = <<>>
  /\ toks = <<>>
  /\ macros = <<>>
  /\ includes = <<>>
  /\ directives = <<>>
  /\ text = <<>>

\* White space separates tokens.
ScanSpace ==
  /\ InLine /\ mode = "code" /\ Ch = " "
  /\ toks' = Flush(toks, cur)
  /\ cur' = <<>>
  /\ col' = col + 1
  /\ UNCHANGED <<line, mode, macros, includes, directives, text>>

\* "#" is a punctuator, a token of its own.
ScanHash ==
  /\ InLine /\ mode = "code" /\ Ch = "#"
  /\ toks' = Append(Flush(toks, cur), <<"#">>)
  /\ cur' = <<>>
  /\ col' = col + 1
  /\ UNCHANGED <<line, mode, macros, includes, directives, text>>

\* A comment is replaced by one space: the rest of the line is skipped.
ScanComment ==
  /\ InLine /\ mode = "code" /\ CommentStart
  /\ toks' = Flush(toks, cur)
  /\ cur' = <<>>
  /\ col' = Len(CurLine) + 1
  /\ UNCHANGED <<line, mode, macros, includes, directives, text>>

\* A double quote opens a string literal (or a quoted header name).
OpenString ==
  /\ InLine /\ mode = "code" /\ Ch = "\""
  /\ toks' = Flush(toks, cur)
  /\ cur' = <<"\"">>
  /\ mode' = "string"
  /\ col' = col + 1
  /\ UNCHANGED <<line, macros, includes, directives, text>>

\* Inside a string literal every character but the quote belongs to it,
\* white space and "/" included.
ScanString ==
  /\ InLine /\ mode = "string" /\ Ch # "\""
  /\ cur' = Append(cur, Ch)
  /\ col' = col + 1
  /\ UNCHANGED <<line, mode, toks, macros, includes, directives, text>>

\* The closing quote completes the string literal.
CloseString ==
  /\ InLine /\ mode = "string" /\ Ch = "\""
  /\ toks' = Append(toks, Append(cur, "\""))
  /\ cur' = <<>>
  /\ mode' = "code"
  /\ col' = col + 1
  /\ UNCHANGED <<line, macros, includes, directives, text>>

\* Any other character extends the identifier or pp-number being read.
ScanChar ==
  /\ InLine /\ mode = "code"
  /\ Ch \notin {" ", "#", "\""} /\ ~CommentStart
  /\ cur' = Append(cur, Ch)
  /\ col' = col + 1
  /\ UNCHANGED <<line, mode, toks, macros, includes, directives, text>>

----------------------------------------------------------------------------
(* Translation phase 4: the line's directive is executed *)

\* A line whose first token is "#" is a directive; "#" alone is the null
\* directive.
IsDirective(ts) == Len(ts) >= 2 /\ ts[1] = <<"#">>
IsDefine(ts) == IsDirective(ts) /\ Str(ts[2]) = "define" /\ Len(ts) >= 3
IsInclude(ts) == IsDirective(ts) /\ Str(ts[2]) = "include" /\ Len(ts) >= 3
IsText(ts) == ts # <<>> /\ ts[1] # <<"#">>

\* #define name replacement-list: the name is bound to the tokens that
\* follow it on the line (none, one or several).
Define(m, name, repl) ==
  [n \in DOMAIN m \cup {name} |-> IF n = name THEN repl ELSE m[n]]

\* Macro replacement with rescanning: a name being replaced is not
\* replaced again inside its own replacement.
RECURSIVE ExpandList(_, _, _)
ExpandList(m, ts, hide) ==
  IF ts = <<>> THEN <<>>
  ELSE LET n == Str(Head(ts))
       IN  (IF n \in DOMAIN m /\ n \notin hide
              THEN ExpandList(m, m[n], hide \cup {n})
              ELSE <<Head(ts)>>)
           \o ExpandList(m, Tail(ts), hide)

\* The end of the line: the token being read is complete and the line is
\* executed. A #define enters the macro table, an #include names a header,
\* any other directive is only recorded, and a line that is no directive
\* is program text, passed on after macro replacement.
EndLine ==
  /\ ~AtEnd /\ col > Len(CurLine)
  /\ LET ts == Flush(toks, cur)
     IN  /\ macros' = IF IsDefine(ts)
                        THEN Define(macros, Str(ts[3]), SubSeq(ts, 4, Len(ts)))
                        ELSE macros
         /\ includes' = IF IsInclude(ts)
                          THEN Append(includes, Str(ts[3]))
                          ELSE includes
         /\ directives' = IF IsDirective(ts)
                            THEN Append(directives, Str(ts[2]))
                            ELSE directives
         /\ text' = IF IsText(ts)
                      THEN text \o ExpandList(macros, ts, {})
                      ELSE text
  /\ line' = line + 1
  /\ col' = 1
  /\ mode' = "code"
  /\ cur' = <<>>
  /\ toks' = <<>>

Next ==
  \/ ScanSpace
  \/ ScanHash
  \/ ScanComment
  \/ OpenString
  \/ ScanString
  \/ CloseString
  \/ ScanChar
  \/ EndLine

Spec == Init /\ [][Next]_vars

----------------------------------------------------------------------------
(* What a use of a macro means to the consuming sketch *)

\* The tokens a use of the macro n is replaced by.
Expansion(n) == ExpandList(macros, macros[n], {n})

Digits == {"0", "1", "2", "3", "4", "5", "6", "7", "8", "9"}

DigitValue(c) ==
  CASE c = "0" -> 0 [] c = "1" -> 1 [] c = "2" -> 2 [] c = "3" -> 3
    [] c = "4" -> 4 [] c = "5" -> 5 [] c = "6" -> 6 [] c = "7" -> 7
    [] c = "8" -> 8 [] c = "9" -> 9

\* A token of digits only is an integer constant: octal when it has a
\* leading 0, decimal otherwise.
IsIntegerConstant(tok) == tok # <<>> /\ \A i \in DOMAIN tok : tok[i] \in Digits
Radix(tok) == IF Len(tok) > 1 /\ tok[1] = "0" THEN 8 ELSE 10

RECURSIVE Accumulate(_, _, _)
Accumulate(tok, radix, acc) ==
  IF tok = <<>> THEN acc
  ELSE Accumulate(Tail(tok), radix, acc * radix + DigitValue(Head(tok)))

IntegerConstant(tok) == Accumulate(tok, Radix(tok), 0)

\* The macro n is defined and a use of it is one integer constant.
HasValue(n) ==
  /\ n \in DOMAIN macros
  /\ Len(Expansion(n)) = 1
  /\ IsIntegerConstant(Expansion(n)[1])

\* The value of that constant.
Value(n) == IntegerConstant(Expansion(n)[1])

\* The whole header has been translated.
Translated == AtEnd

----------------------------------------------------------------------------
(* Properties *)

ConfigNames ==
  {"MQTT_TOPIC_PREFIX", "DEVICE_SLEEP", "RETRY_COUNT", "DHTPIN", "DHTTYPE",
   "IPNR"}

\* The macro n, once defined, is an integer constant of value v.
Is(n, v) == n \in DOMAIN macros => HasValue(n) /\ Value(n) = v

\* The macro n, once defined, is an integer constant with a value in S.
In(n, S) == n \in DOMAIN macros => HasValue(n) /\ Value(n) \in S

\* C1: the integer constants of device.h have exactly these values:
\* DEVICE_SLEEP = 10, RETRY_COUNT = 600, DHTPIN = 2 and IPNR = 251. Each
\* holds from the line that defines the name on, and all four names are
\* defined once the header is translated.
C1_LiteralValues ==
  /\ Is("DEVICE_SLEEP", 10)
  /\ Is("RETRY_COUNT", 600)
  /\ Is("DHTPIN", 2)
  /\ Is("IPNR", 251)
  /\ Translated =>
       {"DEVICE_SLEEP", "RETRY_COUNT", "DHTPIN", "IPNR"} \subseteq DOMAIN macros

\* The header is translated and the four integer constants are defined.
C1_Witness ==
  /\ Translated
  /\ \A n \in {"DEVICE_SLEEP", "RETRY_COUNT", "DHTPIN", "IPNR"} : HasValue(n)

\* C3: MQTT_TOPIC_PREFIX is the string literal "home/", and DHTTYPE is
\* replaced by the identifier DHT11, which device.h does not define itself:
\* it is left to the header DHT.h, included before DHTTYPE is defined.
C3_PrefixAndSensorType ==
  /\ "MQTT_TOPIC_PREFIX" \in DOMAIN macros =>
       Spelling(Expansion("MQTT_TOPIC_PREFIX")) = <<"\"home/\"">>
  /\ "DHTTYPE" \in DOMAIN macros =>
       /\ Spelling(Expansion("DHTTYPE")) = <<"DHT11">>
       /\ "DHT11" \notin DOMAIN macros
       /\ includes = <<"\"DHT.h\"">>
  /\ Translated => {"MQTT_TOPIC_PREFIX", "DHTTYPE"} \subseteq DOMAIN macros

\* The header is translated, both names are defined and DHT.h was included.
C3_Witness ==
  /\ Translated
  /\ {"MQTT_TOPIC_PREFIX", "DHTTYPE"} \subseteq DOMAIN macros
  /\ "\"DHT.h\"" \in Range(includes)

\* C4: device.h defines exactly the six configuration names and nothing
\* else. Once it is translated the macro table holds these six names, every
\* directive executed was an #include or a #define (no conditional
\* directive: no control flow), no line was program text (no declaration,
\* no statement: no operation), and no step is enabled any more: the
\* configuration is fixed and the only behaviour left is stuttering.
C4_OnlySixDefinitions ==
  /\ DOMAIN macros \subseteq ConfigNames
  /\ Range(directives) \subseteq {"include", "define"}
  /\ text = <<>>
  /\ Translated =>
       /\ DOMAIN macros = ConfigNames
       /\ Len(directives) = 7
       /\ ~ENABLED Next

\* The header is translated: six names defined by six #define directives.
C4_Witness ==
  /\ Translated
  /\ Cardinality(DOMAIN macros) = 6
  /\ Len(SelectSeq(directives, LAMBDA d : d = "define")) = 6

\* C5: IPNR is a valid last octet of an IPv4 host address: it lies in
\* 1..254, so it is unchanged by reduction to 8 bits (IPNR % 256 = IPNR) and
\* is neither the network address 0 nor the broadcast address 255.
C5_ValidHostOctet ==
  /\ In("IPNR", 1..254)
  /\ "IPNR" \in DOMAIN macros =>
       /\ Value("IPNR") % 256 = Value("IPNR")
       /\ Value("IPNR") \notin {0, 255}
  /\ Translated => "IPNR" \in DOMAIN macros

\* The header is translated and IPNR is an integer constant.
C5_Witness == Translated /\ HasValue("IPNR")

\* C6: DEVICE_SLEEP and RETRY_COUNT are strictly positive and each fits in
\* a signed 16-bit integer (1 <= value <= 32767): a counter that counts up
\* to RETRY_COUNT stays below 2^15.
C6_PositiveInt16 ==
  /\ In("DEVICE_SLEEP", 1..32767)
  /\ In("RETRY_COUNT", 1..32767)
  /\ "RETRY_COUNT" \in DOMAIN macros =>
       \A k \in 0..Value("RETRY_COUNT") : k < 2^15
  /\ Translated => {"DEVICE_SLEEP", "RETRY_COUNT"} \subseteq DOMAIN macros

\* The header is translated and both names are integer constants.
C6_Witness == Translated /\ HasValue("DEVICE_SLEEP") /\ HasValue("RETRY_COUNT")

====
